---- MODULE Spec2Model ----
(***************************************************************************)
(* Model of the cash-register audit ledger of src/audit.py: the SQLite     *)
(* table "audits", the per-browser-session Streamlit state, and one script *)
(* run of app_main split at its database calls, so that the runs of two    *)
(* sessions interleave at the granularity of SQLite transactions.          *)
(* Three specifications explore it: Spec (two sessions), SpecDates (the    *)
(* clock) and SpecAmounts (the amounts).                                   *)
(*                                                                         *)
(* Money is counted in thousandths of a real (0.005 is 5).  The code uses  *)
(* IEEE doubles; a REAL column stores a double unchanged, and the stored   *)
(* difference is the very value of counted_value - tef_value computed      *)
(* once, so integer subtraction stands for that one subtraction.           *)
(***************************************************************************)
EXTENDS Integers, Sequences, FiniteSets

\* ------------------------------------------------------------------ bounds
MaxCreates == 2
MaxTime == 3
SecondsPerDay == 2
MaxAmountK == 2

\* ------------------------------------------------- configuration (l. 9-30)
ADMIN_PASSWORD == "123456"
Sentinel == "Selecione..."
OPERATORS == {"CATIA CILENE CERQUEIRA"}
SUPERVISORS == {"SIMONE"}
PREVENTION_OFFICERS == {"GABRIEL"}
PDV_OPTIONS == {"1"}
Tolerance == 5

Sessions == {"s1", "s2"}
None == [none |-> TRUE]
NoDate == -1
NoCount == -1
NoId == 0
Dates == 0..(MaxTime \div SecondsPerDay)
\* What the two number inputs may hold (min_value=0.00): multiples of the
\* tolerance, so that a difference can sit on a threshold or beyond it.
Amounts == {k * Tolerance : k \in 0..MaxAmountK}
\* Both inputs left at their default, value=0.00.
EmptyDrawer == {0}
Passwords == {ADMIN_PASSWORD, "", "12345", "1234567"}
Faults == {"none", "commit"}

VARIABLES
    audits,            \* the rows of table audits
    sqlite_sequence,   \* AUTOINCREMENT's record of the largest rowid ever used
    clock,             \* the wall clock, in seconds
    issued,            \* history: the ids save_audit has returned, in order
    pc,                \* per session: where its script run stands
    submitted,         \* per session: the form whose button started the run
    last_audit_id,     \* st.session_state.last_audit_id
    audit_result,      \* st.session_state.audit_result
    title,             \* local of the alert block: the alert rendered
    df_audits,         \* local: the loaded history
    delete_id,         \* local: the id input as the delete form read it
    password_input,    \* local: the password input as the delete-all form read it
    message,           \* the st.error / st.warning / st.success of this run
    deleted_count      \* local of the delete branches

vars == <<audits, sqlite_sequence, clock, issued, pc, submitted, last_audit_id,
          audit_result, title, df_audits, delete_id, password_input, message,
          deleted_count>>

database == <<audits, sqlite_sequence, issued>>
session_state == <<last_audit_id, audit_result>>
delete_locals == <<delete_id, password_input, deleted_count>>

\* ----------------------------------------------------------------- helpers
Max(S) == CHOOSE x \in S : \A y \in S : y <= x
Range(f) == {f[i] : i \in DOMAIN f}
Ids(rows) == {r.id : r \in rows}

\* strftime('%Y-%m-%d %H:%M:%S'): fixed-width text, here its day and
\* second-of-day fields; text comparison is field by field, left to right.
strftime(t) == <<t \div SecondsPerDay, t % SecondsPerDay>>
DayStart(d) == <<d, 0>>
TextLess(a, b) == a[1] < b[1] \/ (a[1] = b[1] /\ a[2] < b[2])

\* ------------------------------------------------------------ the database
init_db == {}

RowidWithoutAutoincrement(rows, seq) ==
    IF rows = {} THEN 1 ELSE Max(Ids(rows)) + 1

\* INTEGER PRIMARY KEY AUTOINCREMENT: one more than the largest rowid the
\* table has ever held.
AutoincrementRowid(rows, seq) == Max(Ids(rows) \cup {seq}) + 1

SaveCommitsDespiteFault(rows, seq, now, pdv, operator, supervisor, prevention, counted, expected, difference, tef, fault) ==
    LET last_id == AutoincrementRowid(rows, seq)
        row == [id |-> last_id, pdv_number |-> pdv, audit_datetime |-> strftime(now),
                operator_name |-> operator, supervisor_name |-> supervisor,
                prevention_name |-> prevention, counted_value |-> counted,
                expected_value |-> expected, difference |-> difference,
                tef_value |-> tef]
    IN  [raised |-> fault # "none", audits |-> rows \cup {row},
         sqlite_sequence |-> last_id, last_id |-> last_id]

\* save_audit: INSERT, lastrowid, commit.  A fault in execute or in commit
\* raises; the connection is dropped with its transaction uncommitted, so
\* neither the row nor the sequence update reaches the table.
save_audit(rows, seq, now, pdv, operator, supervisor, prevention, counted, expected, difference, tef, fault) ==
    LET last_id == AutoincrementRowid(rows, seq)
        row == [id |-> last_id, pdv_number |-> pdv, audit_datetime |-> strftime(now),
                operator_name |-> operator, supervisor_name |-> supervisor,
                prevention_name |-> prevention, counted_value |-> counted,
                expected_value |-> expected, difference |-> difference,
                tef_value |-> tef]
    IN  IF fault # "none"
        THEN [raised |-> TRUE, audits |-> rows, sqlite_sequence |-> seq, last_id |-> 0]
        ELSE [raised |-> FALSE, audits |-> rows \cup {row},
              sqlite_sequence |-> last_id, last_id |-> last_id]

InRangeForgetsEndDay(r, start_date, end_date) ==
    /\ start_date # NoDate => ~TextLess(r.audit_datetime, DayStart(start_date))
    /\ end_date # NoDate => TextLess(r.audit_datetime, DayStart(end_date))

\* The WHERE clause of load_audits_filtered.
InRange(r, start_date, end_date) ==
    /\ start_date # NoDate => ~TextLess(r.audit_datetime, DayStart(start_date))
    /\ end_date # NoDate => TextLess(r.audit_datetime, DayStart(end_date + 1))

Orderings(rows) ==
    {f \in [1..Cardinality(rows) -> rows] : \A i, j \in DOMAIN f : i # j => f[i] # f[j]}

\* ORDER BY audit_datetime DESC: no later row before an earlier one.
OrderedDesc(f) ==
    \A i, j \in DOMAIN f : i < j => ~TextLess(f[i].audit_datetime, f[j].audit_datetime)

UnorderedSelect(rows, start_date, end_date) ==
    Orderings({r \in rows : InRange(r, start_date, end_date)})

\* load_audits_filtered: every frame the SELECT may return.  The statement
\* orders by audit_datetime alone, so SQLite is free in the order of rows
\* of equal audit_datetime.
load_audits_filtered(rows, start_date, end_date) ==
    {f \in Orderings({r \in rows : InRange(r, start_date, end_date)}) : OrderedDesc(f)}

DeleteByIdKeepsRow(rows, audit_id) ==
    [audits |-> rows, deleted_count |-> Cardinality({r \in rows : r.id = audit_id})]

delete_audit_by_id(rows, audit_id) ==
    [audits |-> {r \in rows : r.id # audit_id},
     deleted_count |-> Cardinality({r \in rows : r.id = audit_id})]

DeleteAllButNewest(rows) ==
    [audits |-> {r \in rows : r.id = Max(Ids(rows))},
     deleted_count |-> Cardinality(rows)]

delete_all_audits(rows) ==
    [audits |-> {}, deleted_count |-> Cardinality(rows)]

\* ------------------------------------------------------------ presentation
Red == "background-color: #fcebeb; color: #cc0000; font-weight: bold;"
Green == "background-color: #ecfced; color: #008000; font-weight: bold;"

HighlightInclusive(s) ==
    [i \in DOMAIN s |-> IF s[i] <= -Tolerance THEN Red
                        ELSE IF s[i] >= Tolerance THEN Green ELSE ""]

highlight_difference(s) ==
    [i \in DOMAIN s |-> IF s[i] < -Tolerance THEN Red
                        ELSE IF s[i] > Tolerance THEN Green ELSE ""]

\* The alert block's choice of title.
AlertTitle(difference) ==
    IF difference < -Tolerance THEN "QUEBRA DE CAIXA"
    ELSE IF difference > Tolerance THEN "SOBRA DE CAIXA"
    ELSE "CAIXA FECHADO"

\* Lines 192-231: what the alert block renders for the pending result.
AlertBlock(result) ==
    IF result # None
    THEN [title |-> AlertTitle(result.difference), result |-> result]
    ELSE None

ValidationAllMissing(operator_name, supervisor_name, prevention_name) ==
    operator_name = Sentinel /\ supervisor_name = Sentinel /\ prevention_name = Sentinel

\* Line 300.
DifferenceOfSum(counted_value, tef_value) == counted_value + tef_value

Difference(counted_value, tef_value) == counted_value - tef_value

\* Line 296: the submission is rejected.
ValidationFails(operator_name, supervisor_name, prevention_name) ==
    operator_name = Sentinel \/ supervisor_name = Sentinel \/ prevention_name = Sentinel

PasswordPrefixOk(supplied) == supplied \in {ADMIN_PASSWORD, "1234567"}

\* Line 465.
PasswordOk(supplied) == supplied = ADMIN_PASSWORD

\* -------------------------------------------------------------------- Init
Init ==
    /\ audits = init_db
    /\ sqlite_sequence = 0
    /\ clock = 0
    /\ issued = <<>>
    /\ pc = [s \in Sessions |-> "idle"]
    /\ submitted = [s \in Sessions |-> "none"]
    /\ last_audit_id = [s \in Sessions |-> 0]
    /\ audit_result = [s \in Sessions |-> None]
    /\ title = [s \in Sessions |-> None]
    /\ df_audits = [s \in Sessions |-> <<>>]
    /\ delete_id = [s \in Sessions |-> NoId]
    /\ password_input = [s \in Sessions |-> ""]
    /\ message = [s \in Sessions |-> "none"]
    /\ deleted_count = [s \in Sessions |-> NoCount]

\* ----------------------------------------------------------------- actions
\* A script run of app_main is split where it calls the database: the alert
\* block and the audit form (up to save_audit), the load of the history, and
\* the two delete forms.  What lies between touches only the session's own
\* state and is taken together with the call that follows it.

Tick ==
    /\ clock < MaxTime
    /\ clock' = clock + 1
    /\ UNCHANGED <<database, pc, submitted, session_state, title, df_audits,
                   delete_locals, message>>

\* Lines 192-330 of a run started by the audit form's button.
SubmitAudit(s, amounts) ==
    /\ pc[s] = "idle"
    /\ submitted' = [submitted EXCEPT ![s] = "audit_form"]
    /\ title' = [title EXCEPT ![s] = AlertBlock(audit_result[s])]
    /\ \E pdv_number \in PDV_OPTIONS,
          operator_name \in {Sentinel} \cup OPERATORS,
          supervisor_name \in {Sentinel} \cup SUPERVISORS,
          prevention_name \in {Sentinel} \cup PREVENTION_OFFICERS,
          counted_value \in amounts, tef_value \in amounts, fault \in Faults :
        IF ValidationFails(operator_name, supervisor_name, prevention_name)
        THEN /\ message' = [message EXCEPT ![s] = "error: selecione todos os responsaveis"]
             /\ audit_result' = [audit_result EXCEPT ![s] = None]
             /\ pc' = [pc EXCEPT ![s] = "history"]
             /\ UNCHANGED <<database, last_audit_id>>
        ELSE LET difference == Difference(counted_value, tef_value)
                 expected_value == 0
                 saved == save_audit(audits, sqlite_sequence, clock, pdv_number,
                                     operator_name, supervisor_name, prevention_name,
                                     counted_value, expected_value, difference,
                                     tef_value, fault)
             IN  /\ ~saved.raised => Len(issued) < MaxCreates
                 /\ audits' = saved.audits
                 /\ sqlite_sequence' = saved.sqlite_sequence
                 /\ IF saved.raised
                    THEN /\ message' = [message EXCEPT ![s] = "exception: erro ao salvar"]
                         /\ audit_result' = [audit_result EXCEPT ![s] = None]
                         /\ pc' = [pc EXCEPT ![s] = "history"]
                         /\ UNCHANGED <<issued, last_audit_id>>
                    ELSE /\ issued' = Append(issued, saved.last_id)
                         /\ last_audit_id' = [last_audit_id EXCEPT ![s] = saved.last_id]
                         /\ audit_result' = [audit_result EXCEPT ![s] =
                                [pdv_number |-> pdv_number, difference |-> difference,
                                 counted_value |-> counted_value, tef_value |-> tef_value]]
                         /\ message' = [message EXCEPT ![s] = "none"]
                         /\ pc' = [pc EXCEPT ![s] = "rerun"]
    /\ UNCHANGED <<clock, df_audits, delete_locals>>

\* Lines 192-330 of a run started by another widget: no audit is submitted.
Run(s) ==
    /\ pc[s] = "idle"
    /\ \E f \in {"none", "form_delete_id", "form_delete_all"} :
          submitted' = [submitted EXCEPT ![s] = f]
    /\ title' = [title EXCEPT ![s] = AlertBlock(audit_result[s])]
    /\ audit_result' = [audit_result EXCEPT ![s] = None]
    /\ pc' = [pc EXCEPT ![s] = "history"]
    /\ UNCHANGED <<database, clock, last_audit_id, df_audits, delete_locals, message>>

RerunKeepsResult(s) ==
    /\ pc[s] = "rerun"
    /\ submitted' = [submitted EXCEPT ![s] = "none"]
    /\ title' = [title EXCEPT ![s] = AlertBlock(audit_result[s])]
    /\ audit_result' = audit_result
    /\ message' = [message EXCEPT ![s] = "none"]
    /\ delete_id' = [delete_id EXCEPT ![s] = NoId]
    /\ password_input' = [password_input EXCEPT ![s] = ""]
    /\ deleted_count' = [deleted_count EXCEPT ![s] = NoCount]
    /\ pc' = [pc EXCEPT ![s] = "history"]
    /\ UNCHANGED <<database, clock, last_audit_id, df_audits>>

\* Lines 192-330 of the run st.rerun() starts: it renders a fresh page, and
\* no form is submitted.
Rerun(s) ==
    /\ pc[s] = "rerun"
    /\ submitted' = [submitted EXCEPT ![s] = "none"]
    /\ title' = [title EXCEPT ![s] = AlertBlock(audit_result[s])]
    /\ audit_result' = [audit_result EXCEPT ![s] = None]
    /\ message' = [message EXCEPT ![s] = "none"]
    /\ delete_id' = [delete_id EXCEPT ![s] = NoId]
    /\ password_input' = [password_input EXCEPT ![s] = ""]
    /\ deleted_count' = [deleted_count EXCEPT ![s] = NoCount]
    /\ pc' = [pc EXCEPT ![s] = "history"]
    /\ UNCHANGED <<database, clock, last_audit_id, df_audits>>

\* Lines 341-347: the two date inputs and the load of the history.
LoadHistory(s) ==
    /\ pc[s] = "history"
    /\ \E start_date \in Dates, end_date \in Dates :
         \E df \in load_audits_filtered(audits, start_date, end_date) :
            df_audits' = [df_audits EXCEPT ![s] = df]
    /\ pc' = [pc EXCEPT ![s] = "manage"]
    /\ UNCHANGED <<database, clock, submitted, session_state, title, delete_locals,
                   message>>

\* The run's locals go when app_main returns or st.rerun() abandons it.
DropLocals(s) ==
    /\ submitted' = [submitted EXCEPT ![s] = "none"]
    /\ title' = [title EXCEPT ![s] = None]
    /\ df_audits' = [df_audits EXCEPT ![s] = <<>>]

\* Lines 435-446 with the delete-by-id form submitted.
DeleteId(s) ==
    /\ pc[s] = "manage"
    /\ submitted[s] = "form_delete_id"
    /\ \E id \in 1..(MaxCreates + 1) :
        /\ delete_id' = [delete_id EXCEPT ![s] = id]
        /\ IF df_audits[s] = <<>>
           THEN /\ message' = [message EXCEPT ![s] = "warning: nao ha dados"]
                /\ pc' = [pc EXCEPT ![s] = "done"]
                /\ UNCHANGED <<audits, deleted_count>>
           ELSE IF id \in Ids(Range(df_audits[s]))
           THEN LET del == delete_audit_by_id(audits, id)
                IN  /\ audits' = del.audits
                    /\ deleted_count' = [deleted_count EXCEPT ![s] = del.deleted_count]
                    /\ IF del.deleted_count > 0
                       THEN /\ message' = [message EXCEPT ![s] = "success: excluida"]
                            /\ pc' = [pc EXCEPT ![s] = "rerun"]
                       ELSE /\ message' = [message EXCEPT ![s] = "warning: nao encontrado"]
                            /\ pc' = [pc EXCEPT ![s] = "done"]
           ELSE /\ message' = [message EXCEPT ![s] =
                                  "warning: nao encontrado no historico atual"]
                /\ pc' = [pc EXCEPT ![s] = "done"]
                /\ UNCHANGED <<audits, deleted_count>>
    /\ DropLocals(s)
    /\ UNCHANGED <<sqlite_sequence, issued, clock, session_state, password_input>>

\* Lines 464-471 with the delete-all form submitted.
DeleteAll(s) ==
    /\ pc[s] = "manage"
    /\ submitted[s] = "form_delete_all"
    /\ \E supplied \in Passwords :
        /\ password_input' = [password_input EXCEPT ![s] = supplied]
        /\ IF PasswordOk(supplied)
           THEN LET del == delete_all_audits(audits)
                IN  /\ audits' = del.audits
                    /\ deleted_count' = [deleted_count EXCEPT ![s] = del.deleted_count]
                    /\ message' = [message EXCEPT ![s] = "success: registros excluidos"]
                    /\ last_audit_id' = [last_audit_id EXCEPT ![s] = 0]
                    /\ pc' = [pc EXCEPT ![s] = "rerun"]
           ELSE /\ message' = [message EXCEPT ![s] = "error: senha incorreta"]
                /\ pc' = [pc EXCEPT ![s] = "done"]
                /\ UNCHANGED <<audits, deleted_count, last_audit_id>>
    /\ DropLocals(s)
    /\ UNCHANGED <<sqlite_sequence, issued, clock, audit_result, delete_id>>

\* Neither delete form was submitted: the run reaches the end of app_main.
EndRun(s) ==
    /\ pc[s] = "manage"
    /\ submitted[s] \in {"none", "audit_form"}
    /\ pc' = [pc EXCEPT ![s] = "done"]
    /\ DropLocals(s)
    /\ UNCHANGED <<database, clock, session_state, delete_locals, message>>

\* The page a finished run rendered gives way to the next interaction.
Finish(s) ==
    /\ pc[s] = "done"
    /\ pc' = [pc EXCEPT ![s] = "idle"]
    /\ message' = [message EXCEPT ![s] = "none"]
    /\ delete_id' = [delete_id EXCEPT ![s] = NoId]
    /\ password_input' = [password_input EXCEPT ![s] = ""]
    /\ deleted_count' = [deleted_count EXCEPT ![s] = NoCount]
    /\ UNCHANGED <<database, clock, submitted, session_state, title, df_audits>>

\* The program is checked along three lines, each within the same bounds.

\* Two sessions share the database and interleave at its transactions; all
\* of it happens within one second, and both drawers are counted empty.
Next ==
    \/ \E s \in Sessions : SubmitAudit(s, EmptyDrawer)
    \/ \E s \in Sessions : Run(s)
    \/ \E s \in Sessions : Rerun(s)
    \/ \E s \in Sessions : LoadHistory(s)
    \/ \E s \in Sessions : DeleteId(s)
    \/ \E s \in Sessions : DeleteAll(s)
    \/ \E s \in Sessions : EndRun(s)
    \/ \E s \in Sessions : Finish(s)

Spec == Init /\ [][Next]_vars

\* One session while the clock runs over the days; both drawers are counted
\* empty.
NextDates ==
    \/ Tick
    \/ SubmitAudit("s1", EmptyDrawer)
    \/ Run("s1")
    \/ Rerun("s1")
    \/ LoadHistory("s1")
    \/ DeleteId("s1")
    \/ DeleteAll("s1")
    \/ EndRun("s1")
    \/ Finish("s1")

SpecDates == Init /\ [][NextDates]_vars

\* One session within one second, with the whole range of amounts.
NextAmounts ==
    \/ SubmitAudit("s1", Amounts)
    \/ Run("s1")
    \/ Rerun("s1")
    \/ LoadHistory("s1")
    \/ DeleteId("s1")
    \/ DeleteAll("s1")
    \/ EndRun("s1")
    \/ Finish("s1")

SpecAmounts == Init /\ [][NextAmounts]_vars

\* Line 327: st.rerun() starts the next run of the script at once, so the
\* run it asks for is not put off for ever.
FairSpecAmounts == SpecAmounts /\ WF_vars(Rerun("s1"))

\* ------------------------------------------------------------------ claims
\* The steps of session s, told by what they do to its place in the run.
AuditStep(s) == pc[s] = "idle" /\ pc'[s] # "idle" /\ submitted'[s] = "audit_form"
LoadStep(s) == pc[s] = "history" /\ pc'[s] = "manage"
DeleteIdStep(s) ==
    pc[s] = "manage" /\ pc'[s] # "manage" /\ submitted[s] = "form_delete_id"
DeleteAllStep(s) ==
    pc[s] = "manage" /\ pc'[s] # "manage" /\ submitted[s] = "form_delete_all"

Filters == (Dates \cup {NoDate}) \X (Dates \cup {NoDate})

\* C1: every stored record has difference = countedCash - countedElectronic,
\* with the amounts its Create was given, and no step changes a field of a
\* record that stays in the table.
C1_DifferenceFixedAtCreation ==
    [][ /\ \A r \in audits' : r.difference = r.counted_value - r.tef_value
        /\ \A r \in audits : \A q \in audits' : q.id = r.id => q = r
        /\ \A q \in audits' : q.id \notin Ids(audits) =>
              \E s \in Sessions :
                 /\ AuditStep(s)
                 /\ audit_result'[s] # None
                 /\ q.counted_value = audit_result'[s].counted_value
                 /\ q.tef_value = audit_result'[s].tef_value
                 /\ q.difference = audit_result'[s].difference ]_vars

\* A record with a negative difference still stands, untouched, after a
\* later record was created and deleted.
C1_Witness ==
    \E r \in audits :
        r.id = 1 /\ r.difference < 0 /\ audits = {r} /\ sqlite_sequence = 2

\* C2: no id is assigned twice, whatever was deleted in between and
\* whichever session asks: the ids returned so far are pairwise different,
\* the table holds one row per id, and two sessions never hold the same
\* last id.
C2_IdsNeverReused ==
    /\ \A i, j \in DOMAIN issued : i # j => issued[i] # issued[j]
    /\ \A r, q \in audits : r.id = q.id => r = q
    /\ Ids(audits) \subseteq Range(issued)
    /\ \A s, t \in Sessions :
          s # t /\ last_audit_id[s] # 0 => last_audit_id[s] # last_audit_id[t]

\* One session has just deleted everything (its counter is back at 0) and
\* the other's next Create received id 2, not 1 again.
C2_Witness ==
    \E s, t \in Sessions :
        /\ s # t
        /\ message[s] = "success: registros excluidos"
        /\ last_audit_id[s] = 0
        /\ last_audit_id[t] = 2
        /\ issued = <<1, 2>>
        /\ Ids(audits) = {2}

\* C3: a delete-all with any secret other than the admin secret deletes
\* nothing, leaves every query's result and last_audit_id as they were, and
\* reports the rejection.
C3_WrongSecretDeletesNothing ==
    [][ \A s \in Sessions :
          DeleteAllStep(s) /\ password_input'[s] # ADMIN_PASSWORD =>
             /\ audits' = audits
             /\ sqlite_sequence' = sqlite_sequence
             /\ \A f \in Filters :
                   load_audits_filtered(audits', f[1], f[2])
                      = load_audits_filtered(audits, f[1], f[2])
             /\ last_audit_id' = last_audit_id
             /\ deleted_count'[s] = NoCount
             /\ message'[s] = "error: senha incorreta" ]_vars

\* A secret one character too long was refused while records existed.
C3_Witness ==
    \E s \in Sessions :
        /\ message[s] = "error: senha incorreta"
        /\ password_input[s] = "1234567"
        /\ last_audit_id[s] # 0
        /\ audits # {}

Warnings == {"warning: nao ha dados", "warning: nao encontrado",
             "warning: nao encontrado no historico atual"}

\* C4, as claimed: delete-by-id removes the record with the id entered
\* whenever the table holds it, displayed or not, and reports one deletion;
\* otherwise it changes nothing and reports none.
C4_DeleteOneWheneverStored ==
    [][ \A s \in Sessions :
          DeleteIdStep(s) =>
             IF delete_id'[s] \in Ids(audits)
             THEN /\ audits' = {r \in audits : r.id # delete_id'[s]}
                  /\ deleted_count'[s] = 1
             ELSE /\ audits' = audits
                  /\ deleted_count'[s] \in {0, NoCount}
                  /\ message'[s] \in Warnings ]_vars

\* C4, amended: delete-by-id removes the record with the id entered when
\* the table holds it and the history the run loaded lists it, reports one
\* deletion and leaves every other record as it was; otherwise it changes
\* nothing and warns, with a count of 0 when only the loaded history still
\* listed the id.  An id once gone from the table never comes back.
C4_DeleteOneFromLoadedHistory ==
    [][ /\ \A s \in Sessions :
             DeleteIdStep(s) =>
                IF delete_id'[s] \in Ids(audits)
                   /\ delete_id'[s] \in Ids(Range(df_audits[s]))
                THEN /\ audits' = {r \in audits : r.id # delete_id'[s]}
                     /\ deleted_count'[s] = 1
                     /\ message'[s] = "success: excluida"
                ELSE /\ audits' = audits
                     /\ deleted_count'[s] =
                           IF delete_id'[s] \in Ids(Range(df_audits[s]))
                           THEN 0 ELSE NoCount
                     /\ message'[s] \in Warnings
        /\ \A x \in Range(issued) : x \notin Ids(audits) => x \notin Ids(audits') ]_vars

\* The id was in the history this run loaded, another session deleted the
\* record meanwhile, and the store reported 0.
C4_Witness ==
    \E s \in Sessions :
        /\ message[s] = "warning: nao encontrado"
        /\ deleted_count[s] = 0
        /\ delete_id[s] \in Range(issued)

\* C5, as claimed: every query result is newest first, and records of the
\* same second come in descending id order.
C5_NewestFirstTiesByIdDesc ==
    \A f \in Filters : \A df \in load_audits_filtered(audits, f[1], f[2]) :
        \A i, j \in DOMAIN df :
            i < j =>
               LET a == df[i].audit_datetime
                   b == df[j].audit_datetime
               IN  \/ a[1] > b[1]
                   \/ a[1] = b[1] /\ a[2] > b[2]
                   \/ a = b /\ df[i].id > df[j].id

\* C5, amended: every query result is newest first; the order of records
\* of the same second is not fixed.
C5_NewestFirst ==
    /\ \A f \in Filters : \A df \in load_audits_filtered(audits, f[1], f[2]) :
          \A i, j \in DOMAIN df :
              i < j =>
                 LET a == df[i].audit_datetime
                     b == df[j].audit_datetime
                 IN  a[1] > b[1] \/ (a[1] = b[1] /\ a[2] >= b[2])
    /\ \A s \in Sessions : \A i, j \in DOMAIN df_audits[s] :
          i < j =>
             LET a == df_audits[s][i].audit_datetime
                 b == df_audits[s][j].audit_datetime
             IN  a[1] > b[1] \/ (a[1] = b[1] /\ a[2] >= b[2])

\* A loaded history of two records of the same second, the lower id first.
C5_Witness ==
    \E s \in Sessions :
        /\ Len(df_audits[s]) = 2
        /\ df_audits[s][1].audit_datetime = df_audits[s][2].audit_datetime
        /\ df_audits[s][1].id < df_audits[s][2].id

\* The records of rows whose timestamp lies in [start 00:00:00, end 23:59:59].
Wanted(rows, f) ==
    {r \in rows :
        /\ f[1] # NoDate => ~TextLess(r.audit_datetime, <<f[1], 0>>)
        /\ f[2] # NoDate => ~TextLess(<<f[2], SecondsPerDay - 1>>, r.audit_datetime)}

\* C6: a query returns each stored record of [start 00:00:00, end 23:59:59]
\* once and nothing else, an absent bound not restricting; with start after
\* end it returns the empty sequence; and loading the history changes no
\* stored record.
C6_QueryReturnsTheRange ==
    [][ /\ \A f \in Filters :
             LET results == load_audits_filtered(audits', f[1], f[2])
             IN  /\ results # {}
                 /\ \A df \in results :
                       /\ Range(df) = Wanted(audits', f)
                       /\ Len(df) = Cardinality(Wanted(audits', f))
                 /\ f = <<NoDate, NoDate>> => \A df \in results : Range(df) = audits'
                 /\ f[1] # NoDate /\ f[1] = f[2] =>
                       \A df \in results :
                          Range(df) = {r \in audits' : r.audit_datetime[1] = f[1]}
                 /\ f[1] # NoDate /\ f[2] # NoDate /\ f[1] > f[2] => results = {<<>>}
        /\ \A s \in Sessions :
             LoadStep(s) =>
                /\ audits' = audits
                /\ sqlite_sequence' = sqlite_sequence
                /\ \E f \in Dates \X Dates :
                      /\ Range(df_audits'[s]) = Wanted(audits, f)
                      /\ Len(df_audits'[s]) = Cardinality(Wanted(audits, f)) ]_vars

\* The loaded history is exactly the record of a day's last second, while
\* the table also holds a record of the next day's first second.
C6_Witness ==
    \E s \in Sessions :
        /\ pc[s] = "manage"
        /\ Len(df_audits[s]) = 1
        /\ df_audits[s][1].audit_datetime = <<0, SecondsPerDay - 1>>
        /\ \E r \in audits : r.audit_datetime = <<1, 0>>

\* C7: a delete-all with the admin secret empties the table in one step and
\* reports the number of records it held; every query after it returns the
\* empty sequence, and no step of any session leaves behind a part of a
\* table it took more than one record from.
C7_DeleteAllIsAtomic ==
    [][ /\ \A s \in Sessions :
             DeleteAllStep(s) /\ password_input'[s] = ADMIN_PASSWORD =>
                /\ audits' = {}
                /\ deleted_count'[s] = Cardinality(audits)
                /\ message'[s] = "success: registros excluidos"
                /\ \A f \in Filters :
                      load_audits_filtered(audits', f[1], f[2]) = {<<>>}
        /\ Cardinality(audits \ audits') > 1 => audits' = {} ]_vars

\* One session has deleted two records at once while the other sits on the
\* history it loaded just before, holding both.
C7_Witness ==
    \E s, t \in Sessions :
        /\ s # t
        /\ message[s] = "success: registros excluidos"
        /\ deleted_count[s] = 2
        /\ audits = {}
        /\ pc[t] = "manage"
        /\ Len(df_audits[t]) = 2

\* C8: when save_audit raises, the table and every query's result are as
\* before, nothing is published to audit_result, last_audit_id is unchanged
\* and the error is shown; a submission never leaves the table unchanged
\* without showing why.
C8_FailedCreateLeavesNothing ==
    [][ \A s \in Sessions :
          AuditStep(s) =>
             /\ message'[s] = "exception: erro ao salvar" =>
                   /\ audits' = audits
                   /\ sqlite_sequence' = sqlite_sequence
                   /\ \A f \in Filters :
                         load_audits_filtered(audits', f[1], f[2])
                            = load_audits_filtered(audits, f[1], f[2])
                   /\ audit_result'[s] = None
                   /\ last_audit_id' = last_audit_id
             /\ audits' = audits =>
                   /\ message'[s] \in {"exception: erro ao salvar",
                                       "error: selecione todos os responsaveis"}
                   /\ audit_result'[s] = None
                   /\ last_audit_id' = last_audit_id
             /\ audits' # audits =>
                   /\ message'[s] = "none"
                   /\ audit_result'[s] # None ]_vars

\* A save has failed in a session that had created a record before.
C8_Witness ==
    \E s \in Sessions :
        /\ message[s] = "exception: erro ao salvar"
        /\ pc[s] = "history"
        /\ last_audit_id[s] # 0
        /\ audits # {}

\* C9: every stored record names an operator, a supervisor and an auditor,
\* none of them empty or the placeholder, and has non-negative amounts; a
\* submission rejected for a placeholder leaves the table, audit_result and
\* last_audit_id as they were.
C9_StoredRecordsAreValid ==
    [][ /\ \A r \in audits' :
             /\ r.operator_name \notin {Sentinel, ""}
             /\ r.supervisor_name \notin {Sentinel, ""}
             /\ r.prevention_name \notin {Sentinel, ""}
             /\ r.counted_value >= 0
             /\ r.tef_value >= 0
        /\ \A s \in Sessions :
             AuditStep(s) /\ message'[s] = "error: selecione todos os responsaveis" =>
                /\ audits' = audits
                /\ sqlite_sequence' = sqlite_sequence
                /\ audit_result'[s] = audit_result[s]
                /\ last_audit_id' = last_audit_id ]_vars

\* A submission was rejected while the table holds a record whose
\* difference is negative.
C9_Witness ==
    \E s \in Sessions :
        /\ message[s] = "error: selecione todos os responsaveis"
        /\ \E r \in audits : r.difference < 0

\* The classification as the claim states it.
Classify(d) ==
    IF d < -Tolerance THEN "SHORTAGE" ELSE IF d > Tolerance THEN "OVERAGE" ELSE "BALANCED"

AlertClass(t) ==
    CASE t = "QUEBRA DE CAIXA" -> "SHORTAGE"
      [] t = "SOBRA DE CAIXA" -> "OVERAGE"
      [] t = "CAIXA FECHADO" -> "BALANCED"

StyleClass(style) ==
    CASE style = Red -> "SHORTAGE" [] style = Green -> "OVERAGE" [] style = "" -> "BALANCED"

DifferenceColumn(df) == [i \in DOMAIN df |-> df[i].difference]

\* C10: the alert and the row highlighting both class a difference below
\* -0.005 as shortage, above 0.005 as overage and anything else, the two
\* thresholds included, as balanced; so they agree on every difference.
C10_AlertAndHighlightAgree ==
    /\ \A d \in (-(MaxAmountK + 1) * Tolerance)..((MaxAmountK + 1) * Tolerance) :
          /\ AlertClass(AlertTitle(d)) = Classify(d)
          /\ StyleClass(highlight_difference(<<d>>)[1]) = Classify(d)
    /\ \A s \in Sessions :
          title[s] # None =>
             AlertClass(title[s].title) = Classify(title[s].result.difference)
    /\ \A s \in Sessions :
          LET styles == highlight_difference(DifferenceColumn(df_audits[s]))
          IN  /\ \A i \in DOMAIN df_audits[s] :
                    StyleClass(styles[i]) = Classify(df_audits[s][i].difference)
              /\ \A t \in Sessions : \A i \in DOMAIN df_audits[s] :
                    title[t] # None
                    /\ title[t].result.difference = df_audits[s][i].difference
                    => StyleClass(styles[i]) = AlertClass(title[t].title)

\* The alert of a record whose difference is exactly 0.005 is shown above
\* the history that lists the record.
C10_Witness ==
    \E s \in Sessions :
        /\ title[s] # None
        /\ title[s].result.difference = Tolerance
        /\ title[s].title = "CAIXA FECHADO"
        /\ \E i \in DOMAIN df_audits[s] : df_audits[s][i].difference = Tolerance

\* A render pass of session s begins: a run of app_main starts at its top.
StartsPass(s) ==
    \/ pc[s] = "idle" /\ pc'[s] # "idle"
    \/ pc[s] = "rerun" /\ pc'[s] # "rerun"

\* The step is a successful Create by session s.
Created(s) == AuditStep(s) /\ issued' # issued

\* C11: the alert slot of a session is a one-shot mailbox.  It is empty
\* except between a successful Create and the render pass st.rerun() starts;
\* a successful Create puts into it the terminal, difference and counted
\* amounts of the record it stored; no other step, Query, DeleteOne and
\* DeleteAll included, puts anything into it; the pass that begins with the
\* slot filled shows that result and empties the slot, a pass that begins
\* with it empty shows no result, and within a pass nothing new is shown;
\* and a filled slot is always followed by the pass that shows it.  So each
\* successful Create's result is shown exactly once.
C11_OneShotMailbox ==
    /\ [][ \A s \in Sessions :
             /\ audit_result'[s] # None =>
                   /\ pc'[s] = "rerun"
                   /\ Created(s) \/ audit_result'[s] = audit_result[s]
             /\ pc[s] # "rerun" => audit_result[s] = None
             /\ Created(s) =>
                   \E r \in audits' :
                      /\ r.id = issued'[Len(issued')]
                      /\ r.id = last_audit_id'[s]
                      /\ audit_result'[s] =
                            [pdv_number |-> r.pdv_number, difference |-> r.difference,
                             counted_value |-> r.counted_value, tef_value |-> r.tef_value]
             /\ StartsPass(s) =>
                   /\ audit_result[s] = None => title'[s] = None
                   /\ audit_result[s] # None =>
                         /\ title'[s] # None
                         /\ title'[s].result = audit_result[s]
                         /\ audit_result'[s] = None
             /\ ~StartsPass(s) =>
                   /\ audit_result'[s] = audit_result[s]
                   /\ title'[s] \in {title[s], None}
             /\ LoadStep(s) \/ DeleteIdStep(s) \/ DeleteAllStep(s) =>
                   audit_result'[s] = None /\ audit_result[s] = None ]_vars
    /\ \A s \in {"s1"} :
          (audit_result[s] # None) ~> (title[s] # None /\ audit_result[s] = None)

\* The result of a Create with a shortage was shown by the pass that
\* followed, the slot is empty again, and the record is in the table.
C11_Witness ==
    \E s \in Sessions :
        /\ pc[s] = "manage"
        /\ audit_result[s] = None
        /\ title[s] # None
        /\ title[s].result.difference < -Tolerance
        /\ \E r \in audits :
              /\ r.id = last_audit_id[s]
              /\ title[s].result =
                    [pdv_number |-> r.pdv_number, difference |-> r.difference,
                     counted_value |-> r.counted_value, tef_value |-> r.tef_value]

====
